---------------------------- MODULE Spec2Model ----------------------------
(***************************************************************************)
(* A model of src/libs/reportUtils.js: the cached session email kept by    *)
(* the Onyx subscription, and the report / report-action helpers that read *)
(* it or classify the records handed to them.                              *)
(*                                                                         *)
(* JavaScript values are tagged records, so that undefined, null, false,   *)
(* the empty string and 0 stay distinct values.  A string is the sequence  *)
(* of its characters.  An absent property reads as undefined, as in JS.    *)
(***************************************************************************)
EXTENDS Integers, Sequences, FiniteSets, TLC

VARIABLES sessionEmail, notification, previous, op, input, result

vars == <<sessionEmail, notification, previous, op, input, result>>

(* sessionEmail is the module's only state.  The other variables observe  *)
(* it: notification is the value the latest session notification carried, *)
(* previous the one before it, and op, input, result the last operation   *)
(* run, its arguments and what it returned.                               *)

---------------------------------------------------------------------------
(* JavaScript values *)

Undefined == [type |-> "undefined"]
Null == [type |-> "null"]
Str(chars) == [type |-> "string", s |-> chars]
Bool(b) == [type |-> "boolean", b |-> b]
Num(n) == [type |-> "number", n |-> n]
Arr(items) == [type |-> "array", items |-> items]
(* An object used as a mapping: its keys in property order, and its entries. *)
Map(keys, entries) == [type |-> "map", keys |-> keys, entries |-> entries]

(* The outcome of a call that raised: reading a property of undefined. *)
TypeError == [type |-> "TypeError"]

(* ToBoolean *)
Truthy(v) ==
    CASE v.type = "undefined" -> FALSE
      [] v.type = "null" -> FALSE
      [] v.type = "boolean" -> v.b
      [] v.type = "number" -> v.n # 0
      [] v.type = "string" -> v.s # <<>>
      [] OTHER -> TRUE

(* a && b *)
And(a, b) == IF Truthy(a) THEN b ELSE a

(* ToString, as a template literal applies it to a property value *)
templateString(v) ==
    CASE v.type = "undefined" -> <<"u", "n", "d", "e", "f", "i", "n", "e", "d">>
      [] v.type = "null" -> <<"n", "u", "l", "l">>
      [] v.type = "string" -> v.s
      [] OTHER -> <<"[", "o", "b", "j", "e", "c", "t", " ", "O", "b", "j", "e", "c", "t", "]">>

(* obj[key] without the TypeError: key is a field name of a record, a      *)
(* 0-based index of an array, or the character sequence keying a map.      *)
Prop(obj, key) ==
    CASE obj.type = "object" -> IF key \in DOMAIN obj THEN obj[key] ELSE Undefined
      [] obj.type = "array" -> IF key + 1 \in DOMAIN obj.items THEN obj.items[key + 1] ELSE Undefined
      [] obj.type = "map" -> IF key \in DOMAIN obj.entries THEN obj.entries[key] ELSE Undefined
      [] OTHER -> Undefined

RECURSIVE baseGet(_, _)
baseGet(obj, path) ==
    IF path = <<>> THEN obj
    ELSE IF obj.type \in {"undefined", "null"} THEN Undefined
    ELSE baseGet(Prop(obj, Head(path)), Tail(path))

(* lodash/get: the default stands in for an undefined resolved value only. *)
lodashGet(obj, path, default) ==
    LET v == baseGet(obj, path)
    IN IF v = Undefined THEN default ELSE v

---------------------------------------------------------------------------
(* Constants of CONST.js and ONYXKEYS.js, which reportUtils.js imports.  The *)
(* chat types are the kinds the documentation calls policy-admins,          *)
(* policy-announce, domain-all, policy-room and policy-expense-chat.        *)

ADDCOMMENT == Str(<<"A", "D", "D", "C", "O", "M", "M", "E", "N", "T">>)
IOU == Str(<<"I", "O", "U">>)
ATTACHMENT_TEXT == Str(<<"[", "A", "t", "t", "a", "c", "h", "m", "e", "n", "t", "]">>)

POLICY_ADMINS == Str(<<"p", "o", "l", "i", "c", "y", "A", "d", "m", "i", "n", "s">>)
POLICY_ANNOUNCE == Str(<<"p", "o", "l", "i", "c", "y", "A", "n", "n", "o", "u", "n", "c", "e">>)
DOMAIN_ALL == Str(<<"d", "o", "m", "a", "i", "n", "A", "l", "l">>)
POLICY_ROOM == Str(<<"p", "o", "l", "i", "c", "y", "R", "o", "o", "m">>)
POLICY_EXPENSE_CHAT == Str(<<"p", "o", "l", "i", "c", "y", "E", "x", "p", "e", "n", "s", "e", "C", "h", "a", "t">>)

STATUS_CLOSED == Num(2)
STATE_NUM_SUBMITTED == Num(2)

CONCIERGE == Str(<<"c", "o", "n", "c", "i", "e", "r", "g", "e", "@", "e", "x", "p", "e", "n", "s", "i", "f", "y", ".", "c", "o", "m">>)
CHRONOS == Str(<<"c", "h", "r", "o", "n", "o", "s", "@", "e", "x", "p", "e", "n", "s", "i", "f", "y", ".", "c", "o", "m">>)
EXPENSIFY_EMAILS == {CONCIERGE, CHRONOS, Str(<<"r", "e", "c", "e", "i", "p", "t", "s", "@", "e", "x", "p", "e", "n", "s", "i", "f", "y", ".", "c", "o", "m">>), Str(<<"h", "e", "l", "p", "@", "e", "x", "p", "e", "n", "s", "i", "f", "y", ".", "c", "o", "m">>)}

COLLECTION_POLICY == <<"p", "o", "l", "i", "c", "y", "_">>

(* Localize.translateLocal: the phrase a key and its variables select, kept *)
(* opaque.  No phrase is empty.                                             *)
translateLocal(phrase, variables) ==
    [type |-> "localized", phrase |-> phrase, variables |-> variables]

---------------------------------------------------------------------------
(* The session subscription *)

NoNotification == [type |-> "none"]

(* Variant: a notification that carries nothing leaves the cache as it was. *)
sessionCallbackStale(val) == IF Truthy(val) THEN Prop(val, "email") ELSE sessionEmail
(* val => sessionEmail = val ? val.email : null *)
sessionCallback(val) == IF Truthy(val) THEN Prop(val, "email") ELSE Null

---------------------------------------------------------------------------
(* Report actions *)

isReportMessageAttachment(reportMessageText) == reportMessageText = ATTACHMENT_TEXT

(* Variant: the reportActionID test left out. *)
canEditReportActionNoId(reportAction) ==
    And(Bool(reportAction.actorEmail = sessionEmail),
        And(Bool(reportAction.actionName = ADDCOMMENT),
            Bool(~isReportMessageAttachment(
                    lodashGet(reportAction, <<"message", 0, "text">>, Str(<<>>))))))
canEditReportAction(reportAction) ==
    And(Bool(reportAction.actorEmail = sessionEmail),
        And(reportAction.reportActionID,
            And(Bool(reportAction.actionName = ADDCOMMENT),
                Bool(~isReportMessageAttachment(
                        lodashGet(reportAction, <<"message", 0, "text">>, Str(<<>>)))))))

(* Variant: the attachment test of canEditReportAction kept. *)
canDeleteReportActionAsEdit(reportAction) == canEditReportAction(reportAction)
canDeleteReportAction(reportAction) ==
    And(Bool(reportAction.actorEmail = sessionEmail),
        And(reportAction.reportActionID,
            Bool(reportAction.actionName = ADDCOMMENT)))

---------------------------------------------------------------------------
(* Sorting and selecting reports *)

(* _.toArray: nothing for a falsy collection, a copy of an array, and the  *)
(* values of a mapping in property order.                                  *)
toArray(obj) ==
    IF ~Truthy(obj) THEN <<>>
    ELSE IF obj.type = "array" THEN obj.items
    ELSE [i \in 1..Len(obj.keys) |-> obj.entries[obj.keys[i]]]

(* report => report && report.reportID *)
hasReportID(report) == Truthy(And(report, Prop(report, "reportID")))

(* The relational operators on a criterion that is a number or undefined: *)
(* a comparison with undefined is false.                                  *)
Greater(a, b) == a.type = "number" /\ b.type = "number" /\ a.n > b.n
Less(a, b) == a.type = "number" /\ b.type = "number" /\ a.n < b.n

(* Variant: the index tie-break reversed. *)
compareUnstable(left, right) ==
    LET a == left.criteria
        b == right.criteria
    IN IF a # b /\ (Greater(a, b) \/ a = Undefined) THEN 1
       ELSE IF a # b /\ (Less(a, b) \/ b = Undefined) THEN -1
       ELSE right.index - left.index
(* The comparator _.sortBy hands to Array.prototype.sort. *)
compare(left, right) ==
    LET a == left.criteria
        b == right.criteria
    IN IF a # b /\ (Greater(a, b) \/ a = Undefined) THEN 1
       ELSE IF a # b /\ (Less(a, b) \/ b = Undefined) THEN -1
       ELSE left.index - right.index

(* Array.prototype.sort under that comparator, as an insertion sort. *)
RECURSIVE insert(_, _)
insert(sorted, x) ==
    IF sorted = <<>> THEN <<x>>
    ELSE IF compare(x, Head(sorted)) < 0 THEN <<x>> \o sorted
    ELSE <<Head(sorted)>> \o insert(Tail(sorted), x)

RECURSIVE arraySort(_)
arraySort(list) ==
    IF list = <<>> THEN <<>>
    ELSE insert(arraySort(SubSeq(list, 1, Len(list) - 1)), list[Len(list)])

(* _.sortBy(list, key) *)
sortBy(list, key) ==
    LET wrapped == [i \in 1..Len(list) |->
                       [value |-> list[i], index |-> i - 1, criteria |-> Prop(list[i], key)]]
        sorted == arraySort(wrapped)
    IN [i \in 1..Len(sorted) |-> sorted[i].value]

sortReportsByLastVisited(reports) ==
    sortBy(SelectSeq(toArray(reports), hasReportID), "lastVisitedTimestamp")

(* Variant: only the admins room counted as a default room. *)
isDefaultRoomAdminsOnly(report) ==
    lodashGet(report, <<"chatType">>, Str(<<>>)) \in {POLICY_ADMINS}
isDefaultRoom(report) ==
    lodashGet(report, <<"chatType">>, Str(<<>>)) \in {POLICY_ADMINS, POLICY_ANNOUNCE, DOMAIN_ALL}

notDefaultRoom(report) == ~isDefaultRoom(report)

(* _.last *)
last(list) == IF list = <<>> THEN Undefined ELSE list[Len(list)]

findLastAccessedReport(reports, ignoreDefaultRooms) ==
    LET sortedReports == sortReportsByLastVisited(reports)
    IN last(IF Truthy(ignoreDefaultRooms)
            THEN SelectSeq(sortedReports, notDefaultRoom)
            ELSE sortedReports)

---------------------------------------------------------------------------
(* Room kinds *)

isAdminRoom(report) == lodashGet(report, <<"chatType">>, Str(<<>>)) = POLICY_ADMINS

isAnnounceRoom(report) == lodashGet(report, <<"chatType">>, Str(<<>>)) = POLICY_ANNOUNCE

isUserCreatedPolicyRoom(report) == lodashGet(report, <<"chatType">>, Str(<<>>)) = POLICY_ROOM

isPolicyExpenseChat(report) == lodashGet(report, <<"chatType">>, Str(<<>>)) = POLICY_EXPENSE_CHAT

isChatRoom(report) == isUserCreatedPolicyRoom(report) \/ isDefaultRoom(report)

(* Variant: policy-expense chats left out. *)
isArchivedRoomChatRoomOnly(report) ==
    IF ~isChatRoom(report)
    THEN Bool(FALSE)
    ELSE Bool(report.statusNum = STATUS_CLOSED /\ report.stateNum = STATE_NUM_SUBMITTED)
isArchivedRoom(report) ==
    IF ~isChatRoom(report) /\ ~isPolicyExpenseChat(report)
    THEN Bool(FALSE)
    ELSE Bool(report.statusNum = STATUS_CLOSED /\ report.stateNum = STATE_NUM_SUBMITTED)

(* str.substring(1), str being any value: reading .substring of undefined  *)
(* or null raises.                                                         *)
substring1(str) ==
    IF str.type \in {"undefined", "null"} THEN TypeError
    ELSE Str(SubSeq(str.s, 2, Len(str.s)))

policyName(report, policiesMap) ==
    lodashGet(policiesMap,
              <<COLLECTION_POLICY \o templateString(report.policyID), "name">>,
              translateLocal("workspace.common.unavailable", Undefined))

getChatRoomSubtitle(report, policiesMap) ==
    IF ~isDefaultRoom(report) /\ ~isUserCreatedPolicyRoom(report) /\ ~isPolicyExpenseChat(report)
    THEN Str(<<>>)
    ELSE IF report.chatType = DOMAIN_ALL
    THEN substring1(report.reportName)
    ELSE IF isArchivedRoom(report) = Bool(TRUE)
    THEN report.oldPolicyName
    ELSE IF isPolicyExpenseChat(report) /\ Truthy(report.isOwnPolicyExpenseChat)
    THEN translateLocal("workspace.common.workspace", Undefined)
    ELSE policyName(report, policiesMap)

getRoomWelcomeMessage(report, policiesMap) ==
    LET workspaceName == policyName(report, policiesMap)
        named == [type |-> "object", workspaceName |-> workspaceName]
    IN IF isAdminRoom(report)
       THEN [type |-> "object",
             phrase1 |-> translateLocal("reportActionsView.beginningOfChatHistoryAdminRoomPartOne", named),
             phrase2 |-> translateLocal("reportActionsView.beginningOfChatHistoryAdminRoomPartTwo", Undefined)]
       ELSE IF isAnnounceRoom(report)
       THEN [type |-> "object",
             phrase1 |-> translateLocal("reportActionsView.beginningOfChatHistoryAnnounceRoomPartOne", named),
             phrase2 |-> translateLocal("reportActionsView.beginningOfChatHistoryAnnounceRoomPartTwo", named)]
       ELSE [type |-> "object",
             phrase1 |-> translateLocal("reportActionsView.beginningOfChatHistoryUserRoomPartOne", Undefined),
             phrase2 |-> translateLocal("reportActionsView.beginningOfChatHistoryUserRoomPartTwo", Undefined)]

---------------------------------------------------------------------------
(* Participants *)

Contains(list, value) == \E i \in 1..Len(list) : list[i] = value

isConciergeChatReport(report) ==
    Bool(/\ Len(lodashGet(report, <<"participants">>, Arr(<<>>)).items) = 1
         /\ Prop(report.participants, 0) = CONCIERGE)

chatIncludesConcierge(report) ==
    And(report.participants,
        Bool(report.participants.type = "array" /\ Contains(report.participants.items, CONCIERGE)))

hasExpensifyEmails(emails) == \E i \in 1..Len(emails) : emails[i] \in EXPENSIFY_EMAILS

(* CONST.DEFAULT_TIME_ZONE is defined in CONST.js, outside this file: the   *)
(* value the import binds is the third argument here.                      *)
canShowReportRecipientLocalTime(personalDetails, report, DEFAULT_TIME_ZONE) ==
    LET reportParticipants == lodashGet(report, <<"participants">>, Arr(<<>>))
        hasMultipleParticipants == Len(reportParticipants.items) > 1
        reportRecipient == Prop(personalDetails, templateString(Prop(reportParticipants, 0)))
        reportRecipientTimezone == lodashGet(reportRecipient, <<"timezone">>, DEFAULT_TIME_ZONE)
    IN And(Bool(~hasExpensifyEmails(reportParticipants.items)),
           And(Bool(~hasMultipleParticipants),
               And(reportRecipient,
                   And(reportRecipientTimezone,
                       Prop(reportRecipientTimezone, "selected")))))

(* action.message.length === 0 || action.message[0].html === '': reading   *)
(* .length of an absent message raises.                                    *)
isDeletedAction(action) ==
    IF action.message.type \in {"undefined", "null"} THEN TypeError
    ELSE IF Len(action.message.items) = 0 THEN Bool(TRUE)
    ELSE Bool(action.message.items[1].html = Str(<<>>))

---------------------------------------------------------------------------
(* Bounded inputs *)

UserA == Str(<<"a", "@", "x", ".", "c", "o">>)
UserB == Str(<<"b", "@", "x", ".", "c", "o">>)

SessionValues ==
    {Undefined, Null,
     [type |-> "object", email |-> UserA],
     [type |-> "object", email |-> UserB],
     [type |-> "object"]}

MessagePart(html, text) == [type |-> "object", html |-> html, text |-> text]

Messages ==
    {Undefined, Arr(<<>>)}
    \cup {Arr(<<MessagePart(Str(<<"h", "i">>), t)>>) :
            t \in {Undefined, Str(<<>>), Str(<<"h", "i">>), ATTACHMENT_TEXT}}
    \cup {Arr(<<MessagePart(Str(<<"h", "i">>), Str(<<"h", "i">>)), MessagePart(Str(<<"x">>), ATTACHMENT_TEXT)>>),
          Arr(<<MessagePart(Undefined, Undefined)>>),
          Arr(<<MessagePart(Str(<<>>), Str(<<>>))>>)}

ReportActions ==
    [type : {"object"},
     actorEmail : {Undefined, Null, UserA, UserB},
     reportActionID : {Undefined, Str(<<>>), Str(<<"1", "7">>)},
     actionName : {ADDCOMMENT, IOU},
     message : Messages]

MaxReports == 3

Timestamps == {Undefined, Num(1), Num(2)}

SortableReports ==
    [type : {"object"},
     reportID : {Undefined, Str(<<"7">>)},
     lastVisitedTimestamp : Timestamps,
     chatType : {Undefined, POLICY_ADMINS}]

ReportEntries == {Null} \cup SortableReports

ReportLists == UNION {[1..n -> ReportEntries] : n \in 0..MaxReports}

ReportKey(i) == <<"r", "e", "p", "o", "r", "t", "_">> \o <<<<"1", "2", "3", "4", "5", "6", "7", "8", "9">>[i]>>

(* A list of reports handed over as an array, or as a mapping keyed report_<n>. *)
asMapping(list) ==
    Map([i \in 1..Len(list) |-> ReportKey(i)],
        [k \in {ReportKey(i) : i \in 1..Len(list)} |->
            list[CHOOSE i \in 1..Len(list) : ReportKey(i) = k]])

ReportCollections ==
    {Undefined} \cup {Arr(list) : list \in ReportLists} \cup {asMapping(list) : list \in ReportLists}

(* Reports for findLastAccessedReport: the three default rooms, a          *)
(* user-created room and a chat with no chatType, each with a timestamp;  *)
(* and entries the filter drops.                                          *)
VisitedReports ==
    [type : {"object"},
     reportID : {Str(<<"7">>)},
     lastVisitedTimestamp : {Num(1), Num(2)},
     chatType : {Undefined, POLICY_ADMINS, POLICY_ANNOUNCE, DOMAIN_ALL, POLICY_ROOM}]

UnidentifiedReports ==
    [type : {"object"},
     reportID : {Undefined},
     lastVisitedTimestamp : {Num(2)},
     chatType : {POLICY_ROOM}]

VisitedEntries == {Null} \cup UnidentifiedReports \cup VisitedReports

VisitedLists == UNION {[1..n -> VisitedEntries] : n \in 0..MaxReports}

VisitedCollections ==
    {Undefined} \cup {Arr(list) : list \in VisitedLists} \cup {asMapping(list) : list \in VisitedLists}

RoomReports ==
    [type : {"object"},
     chatType : {Undefined, POLICY_ADMINS, POLICY_ANNOUNCE, DOMAIN_ALL, POLICY_ROOM, POLICY_EXPENSE_CHAT},
     statusNum : {Undefined, Num(0), STATUS_CLOSED},
     stateNum : {Undefined, Num(1), STATE_NUM_SUBMITTED},
     reportName : {Undefined, Str(<<>>), Str(<<"#", "A", "c", "m", "e">>)},
     policyID : {Undefined, Str(<<"1">>)},
     oldPolicyName : {Undefined, Str(<<"O", "l", "d">>)},
     isOwnPolicyExpenseChat : {Undefined, Bool(TRUE)}]

Policy(name) == [type |-> "object", name |-> name]

PolicyKeys == {<<"p", "o", "l", "i", "c", "y", "_", "1">>, <<"p", "o", "l", "i", "c", "y", "_", "u", "n", "d", "e", "f", "i", "n", "e", "d">>}

PoliciesMaps ==
    {Undefined}
    \cup {Map(<<>>, [k \in {} |-> Undefined])}
    \cup {Map(<<k>>, [j \in {k} |-> Policy(name)]) :
            k \in PolicyKeys, name \in {Undefined, Str(<<"A", "c", "m", "e", " ", "I", "n", "c">>)}}

MaxParticipants == 2

Emails == {UserA, UserB, CONCIERGE}

ParticipantReports ==
    {[type |-> "object", participants |-> Undefined]}
    \cup {[type |-> "object", participants |-> Arr(list)] :
            list \in UNION {[1..n -> Emails] : n \in 0..MaxParticipants}}

Timezone(selected) == [type |-> "object", automatic |-> Bool(FALSE), selected |-> selected]

Profiles ==
    {Undefined}
    \cup {[type |-> "object", timezone |-> tz] :
            tz \in {Undefined} \cup {Timezone(s) : s \in {Undefined, Bool(FALSE), Bool(TRUE)}}}

(* The values CONST.DEFAULT_TIME_ZONE may have: a timezone as the data     *)
(* model describes one, its selected flag either way.                     *)
DefaultTimeZones ==
    {[type |-> "object", automatic |-> Bool(TRUE), selected |-> s] : s \in {Bool(FALSE), Bool(TRUE)}}

(* Personal details keyed by login; a login with no profile has no key. *)
PersonalDetails ==
    {LET keys == {k \in {UserA.s, CONCIERGE.s} : f[k] # Undefined}
     IN Map(CHOOSE order \in [1..Cardinality(keys) -> keys] :
                \A i, j \in 1..Cardinality(keys) : i # j => order[i] # order[j],
            [k \in keys |-> f[k]]) :
         f \in [{UserA.s, CONCIERGE.s} -> Profiles]}

---------------------------------------------------------------------------
(* Actions *)

Init ==
    /\ sessionEmail = Undefined
    /\ notification = NoNotification
    /\ previous = NoNotification
    /\ op = "start"
    /\ input = Undefined
    /\ result = Undefined

(* The arrow function returns the value it assigns. *)
SessionCallback(val) ==
    /\ sessionEmail' = sessionCallback(val)
    /\ notification' = val
    /\ previous' = notification
    /\ op' = "sessionCallback"
    /\ input' = val
    /\ result' = sessionCallback(val)

CanEditReportAction(reportAction) ==
    /\ op' = "canEditReportAction"
    /\ input' = reportAction
    /\ result' = canEditReportAction(reportAction)
    /\ UNCHANGED <<sessionEmail, notification, previous>>

CanDeleteReportAction(reportAction) ==
    /\ op' = "canDeleteReportAction"
    /\ input' = reportAction
    /\ result' = canDeleteReportAction(reportAction)
    /\ UNCHANGED <<sessionEmail, notification, previous>>

Next ==
    \/ \E val \in SessionValues : SessionCallback(val)
    \/ \E reportAction \in ReportActions : CanEditReportAction(reportAction)
    \/ \E reportAction \in ReportActions : CanDeleteReportAction(reportAction)

Spec == Init /\ [][Next]_vars

SortReportsByLastVisited(reports) ==
    /\ op' = "sortReportsByLastVisited"
    /\ input' = [reports |-> reports]
    /\ result' = Arr(sortReportsByLastVisited(reports))
    /\ UNCHANGED <<sessionEmail, notification, previous>>

FindLastAccessedReport(reports, ignoreDefaultRooms) ==
    /\ op' = "findLastAccessedReport"
    /\ input' = [reports |-> reports, ignoreDefaultRooms |-> ignoreDefaultRooms]
    /\ result' = findLastAccessedReport(reports, ignoreDefaultRooms)
    /\ UNCHANGED <<sessionEmail, notification, previous>>

(* The helpers below are pure: one call per behaviour covers them. *)
Fresh == op = "start"

NextReports ==
    \/ /\ Fresh
       /\ \E reports \in ReportCollections : SortReportsByLastVisited(reports)
    \/ /\ Fresh
       /\ \E reports \in VisitedCollections, ignoreDefaultRooms \in {Undefined, Bool(FALSE), Bool(TRUE)} :
             FindLastAccessedReport(reports, ignoreDefaultRooms)

SpecReports == Init /\ [][NextReports]_vars

IsArchivedRoom(report) ==
    /\ op' = "isArchivedRoom"
    /\ input' = [report |-> report]
    /\ result' = isArchivedRoom(report)
    /\ UNCHANGED <<sessionEmail, notification, previous>>

GetChatRoomSubtitle(report, policiesMap) ==
    /\ op' = "getChatRoomSubtitle"
    /\ input' = [report |-> report, policiesMap |-> policiesMap]
    /\ result' = getChatRoomSubtitle(report, policiesMap)
    /\ UNCHANGED <<sessionEmail, notification, previous>>

GetRoomWelcomeMessage(report, policiesMap) ==
    /\ op' = "getRoomWelcomeMessage"
    /\ input' = [report |-> report, policiesMap |-> policiesMap]
    /\ result' = getRoomWelcomeMessage(report, policiesMap)
    /\ UNCHANGED <<sessionEmail, notification, previous>>

IsConciergeChatReport(report) ==
    /\ op' = "isConciergeChatReport"
    /\ input' = [report |-> report]
    /\ result' = isConciergeChatReport(report)
    /\ UNCHANGED <<sessionEmail, notification, previous>>

ChatIncludesConcierge(report) ==
    /\ op' = "chatIncludesConcierge"
    /\ input' = [report |-> report]
    /\ result' = chatIncludesConcierge(report)
    /\ UNCHANGED <<sessionEmail, notification, previous>>

CanShowReportRecipientLocalTime(personalDetails, report, defaultTimeZone) ==
    /\ op' = "canShowReportRecipientLocalTime"
    /\ input' = [personalDetails |-> personalDetails, report |-> report,
                 DEFAULT_TIME_ZONE |-> defaultTimeZone]
    /\ result' = canShowReportRecipientLocalTime(personalDetails, report, defaultTimeZone)
    /\ UNCHANGED <<sessionEmail, notification, previous>>

IsDeletedAction(action) ==
    /\ op' = "isDeletedAction"
    /\ input' = action
    /\ result' = isDeletedAction(action)
    /\ UNCHANGED <<sessionEmail, notification, previous>>

NextHelpers ==
    \/ /\ Fresh
       /\ \E report \in RoomReports : IsArchivedRoom(report)
    \/ /\ Fresh
       /\ \E report \in RoomReports, policiesMap \in PoliciesMaps :
             GetChatRoomSubtitle(report, policiesMap)
    \/ /\ Fresh
       /\ \E report \in RoomReports, policiesMap \in PoliciesMaps :
             GetRoomWelcomeMessage(report, policiesMap)
    \/ /\ Fresh
       /\ \E report \in ParticipantReports : IsConciergeChatReport(report)
    \/ /\ Fresh
       /\ \E report \in ParticipantReports : ChatIncludesConcierge(report)
    \/ /\ Fresh
       /\ \E personalDetails \in PersonalDetails, report \in ParticipantReports,
                defaultTimeZone \in DefaultTimeZones :
             CanShowReportRecipientLocalTime(personalDetails, report, defaultTimeZone)
    \/ /\ Fresh
       /\ \E action \in ReportActions : IsDeletedAction(action)
    \/ /\ Fresh
       /\ \E reportAction \in ReportActions : CanEditReportAction(reportAction)
    \/ /\ Fresh
       /\ \E reportAction \in ReportActions : CanDeleteReportAction(reportAction)

SpecHelpers == Init /\ [][NextHelpers]_vars

---------------------------------------------------------------------------
(* Properties of the session cache and the permission checks *)

(* The claims' vocabulary, stated without the code's helpers. *)
HasId(reportAction) == reportAction.reportActionID \notin {Undefined, Null, Str(<<>>)}

FirstMessageText(reportAction) ==
    LET m == reportAction.message
    IN IF m.type = "array" /\ Len(m.items) >= 1 /\ m.items[1].text # Undefined
       THEN m.items[1].text
       ELSE Str(<<>>)

DeleteConditions(reportAction, email) ==
    /\ reportAction.actorEmail = email
    /\ HasId(reportAction)
    /\ reportAction.actionName = ADDCOMMENT

EditConditions(reportAction, email) ==
    /\ DeleteConditions(reportAction, email)
    /\ FirstMessageText(reportAction) # ATTACHMENT_TEXT

(* The email the latest notification carried; null when it carried nothing. *)
LatestEmail == IF notification \in {Undefined, Null} THEN Null ELSE Prop(notification, "email")

NoUserSignedIn == notification = NoNotification \/ notification \in {Undefined, Null}

(* C1: canEditReportAction returns true exactly when the actor is the      *)
(* cached session email, the action has a non-empty reportActionID, it is  *)
(* an ADDCOMMENT and its first message text (empty when absent) is not     *)
(* "[Attachment]"; otherwise, and so whenever reportActionID is absent,    *)
(* what it returns is falsy.                                               *)
C1_CanEditIff ==
    op = "canEditReportAction" =>
        /\ (result = Bool(TRUE)) <=> EditConditions(input, sessionEmail)
        /\ Truthy(result) <=> EditConditions(input, sessionEmail)
        /\ input.reportActionID = Undefined => ~Truthy(result)

C1_Witness ==
    /\ op = "canEditReportAction"
    /\ sessionEmail = UserA
    /\ input.actorEmail = UserA
    /\ input.reportActionID = Str(<<"1", "7">>)
    /\ input.message = Arr(<<MessagePart(Str(<<"h", "i">>), Str(<<"h", "i">>))>>)
    /\ result = Bool(TRUE)

(* C2: canDeleteReportAction returns true exactly when the actor is the    *)
(* cached session email, the action has a non-empty reportActionID and it  *)
(* is an ADDCOMMENT, whatever the message text; on an attachment comment   *)
(* of the current user it is true while canEditReportAction is not.        *)
C2_CanDeleteIff ==
    op = "canDeleteReportAction" =>
        /\ (result = Bool(TRUE)) <=> DeleteConditions(input, sessionEmail)
        /\ Truthy(result) <=> DeleteConditions(input, sessionEmail)
        /\ (DeleteConditions(input, sessionEmail) /\ FirstMessageText(input) = ATTACHMENT_TEXT)
              => (result = Bool(TRUE) /\ ~Truthy(canEditReportAction(input)))

C2_Witness ==
    /\ op = "canDeleteReportAction"
    /\ sessionEmail = UserA
    /\ input.actorEmail = UserA
    /\ FirstMessageText(input) = ATTACHMENT_TEXT
    /\ result = Bool(TRUE)
    /\ canEditReportAction(input) = Bool(FALSE)

(* C3: last update wins.  Once a notification has been delivered the       *)
(* cached email is the email the latest one carried (null when it carried  *)
(* nothing), and a permission check made since then is decided by that     *)
(* email, not by an earlier notification's.                                *)
C3_LastUpdateWins ==
    notification # NoNotification =>
        /\ sessionEmail = LatestEmail
        /\ op = "canEditReportAction" => (Truthy(result) <=> EditConditions(input, LatestEmail))
        /\ op = "canDeleteReportAction" => (Truthy(result) <=> DeleteConditions(input, LatestEmail))

C3_Witness ==
    /\ previous = [type |-> "object", email |-> UserA]
    /\ notification = [type |-> "object", email |-> UserB]
    /\ op = "canDeleteReportAction"
    /\ input.actorEmail = UserA
    /\ HasId(input)
    /\ input.actionName = ADDCOMMENT
    /\ result = Bool(FALSE)

(* C10: while no user is signed in (no notification delivered yet, or the  *)
(* latest one carried nothing) neither permission check returns a truthy   *)
(* value, for any report action.                                           *)
C10_NoUserGrantsNothing ==
    (NoUserSignedIn /\ op \in {"canEditReportAction", "canDeleteReportAction"})
        => ~Truthy(result)

---------------------------------------------------------------------------
(* Properties of sorting and selecting *)

ValidReport(entry) ==
    /\ entry \notin {Undefined, Null}
    /\ entry.reportID \notin {Undefined, Null, Str(<<>>)}

(* The entries of a collection, in order, whatever its form. *)
EntriesOf(reports) ==
    IF reports \in {Undefined, Null} THEN <<>>
    ELSE IF reports.type = "array" THEN reports.items
    ELSE [i \in 1..Len(reports.keys) |-> reports.entries[reports.keys[i]]]

Timestamp(report) == report.lastVisitedTimestamp

(* out is the valid entries of list, each once, never decreasing in       *)
(* timestamp, equal timestamps in their original order.                   *)
IsStableSortOf(out, list) ==
    LET valid == SelectSeq(list, ValidReport)
        n == Len(valid)
    IN /\ Len(out) = n
       /\ \E p \in Permutations(1..n) :
            /\ \A i \in 1..n : out[i] = valid[p[i]]
            /\ \A i, j \in 1..n :
                 i < j => /\ ~Less(Timestamp(out[j]), Timestamp(out[i]))
                          /\ Timestamp(out[i]) = Timestamp(out[j]) => p[i] < p[j]

(* C4: sortReportsByLastVisited returns exactly the entries that are       *)
(* truthy and have a report identifier, each once, in non-decreasing       *)
(* order of lastVisitedTimestamp, entries of equal timestamp in their      *)
(* original relative order, for a sequence and for a mapping.              *)
C4_SortedValidStable ==
    op = "sortReportsByLastVisited" =>
        /\ result.type = "array"
        /\ IsStableSortOf(result.items, EntriesOf(input.reports))

C4_Witness ==
    /\ op = "sortReportsByLastVisited"
    /\ input.reports.type = "map"
    /\ LET list == EntriesOf(input.reports)
       IN /\ Len(list) = 3
          /\ list[2] = Null
          /\ ValidReport(list[1]) /\ ValidReport(list[3])
          /\ list[1] # list[3]
          /\ Timestamp(list[1]) = Num(2) /\ Timestamp(list[3]) = Num(2)
          /\ result.items = <<list[1], list[3]>>

EachCarriesTimestamp(list) ==
    \A i \in 1..Len(list) : list[i] \notin {Undefined, Null} => Timestamp(list[i]).type = "number"

DefaultChatTypes == {POLICY_ADMINS, POLICY_ANNOUNCE, DOMAIN_ALL}

(* C5: over reports that each carry a lastVisitedTimestamp,                *)
(* findLastAccessedReport returns undefined when no valid report remains   *)
(* and otherwise a remaining valid report of greatest timestamp; with      *)
(* ignoreDefaultRooms set the default rooms do not remain.                 *)
C5_MostRecentlyVisited ==
    (op = "findLastAccessedReport" /\ EachCarriesTimestamp(EntriesOf(input.reports))) =>
        LET list == EntriesOf(input.reports)
            ignore == input.ignoreDefaultRooms = Bool(TRUE)
            remaining == {list[i] : i \in {k \in 1..Len(list) :
                             /\ ValidReport(list[k])
                             /\ ignore => list[k].chatType \notin DefaultChatTypes}}
        IN /\ remaining = {} => result = Undefined
           /\ remaining # {} =>
                /\ result \in remaining
                /\ \A r \in remaining : Timestamp(r).n <= Timestamp(result).n
           /\ (ignore /\ result # Undefined) => result.chatType \notin DefaultChatTypes

C5_Witness ==
    /\ op = "findLastAccessedReport"
    /\ input.ignoreDefaultRooms = Bool(TRUE)
    /\ LET list == EntriesOf(input.reports)
       IN /\ Len(list) = 3
          /\ ValidReport(list[1]) /\ ValidReport(list[2]) /\ ValidReport(list[3])
          /\ list[1].chatType = DOMAIN_ALL /\ Timestamp(list[1]) = Num(2)
          /\ list[2].chatType = POLICY_ROOM /\ Timestamp(list[2]) = Num(1)
          /\ list[3].chatType = POLICY_ANNOUNCE /\ Timestamp(list[3]) = Num(2)
          /\ result = list[2]

---------------------------------------------------------------------------
(* Properties of the room and participant helpers *)

HelperOps ==
    {"isDeletedAction", "getChatRoomSubtitle", "isConciergeChatReport",
     "chatIncludesConcierge", "canShowReportRecipientLocalTime",
     "canEditReportAction", "canDeleteReportAction", "isArchivedRoom",
     "getRoomWelcomeMessage"}

(* C6: on a record whose optional fields are absent, each of the nine      *)
(* helpers returns a value; none raises an error.                          *)
C6_NeverRaises == op \in HelperOps => result # TypeError

RoomChatTypes == {POLICY_ADMINS, POLICY_ANNOUNCE, DOMAIN_ALL, POLICY_ROOM, POLICY_EXPENSE_CHAT}

Archived(report) ==
    /\ report.chatType \in RoomChatTypes
    /\ report.statusNum = STATUS_CLOSED
    /\ report.stateNum = STATE_NUM_SUBMITTED

(* C7: isArchivedRoom is true exactly for a report whose chatType is one   *)
(* of the five room kinds and whose statusNum is CLOSED and stateNum is    *)
(* SUBMITTED; it is false for a report with no chatType.                   *)
C7_ArchivedIff ==
    op = "isArchivedRoom" =>
        /\ result \in {Bool(TRUE), Bool(FALSE)}
        /\ (result = Bool(TRUE)) <=> Archived(input.report)
        /\ input.report.chatType = Undefined => result = Bool(FALSE)

C7_Witness ==
    /\ op = "isArchivedRoom"
    /\ input.report.chatType = POLICY_EXPENSE_CHAT
    /\ input.report.statusNum = STATUS_CLOSED
    /\ input.report.stateNum = STATE_NUM_SUBMITTED
    /\ result = Bool(TRUE)

(* The name stored for the report's policy, or the unavailable label. *)
StoredPolicyName(report, policiesMap) ==
    LET key == <<"p", "o", "l", "i", "c", "y", "_">> \o (IF report.policyID = Undefined THEN <<"u", "n", "d", "e", "f", "i", "n", "e", "d">> ELSE report.policyID.s)
    IN IF /\ policiesMap # Undefined
          /\ key \in DOMAIN policiesMap.entries
          /\ policiesMap.entries[key].name # Undefined
       THEN policiesMap.entries[key].name
       ELSE translateLocal("workspace.common.unavailable", Undefined)

(* The subtitle the five cases give, taken in order; the second case has   *)
(* a value only when there is a report name to shorten.                    *)
SubtitleCase(report) ==
    IF report.chatType \notin RoomChatTypes THEN 1
    ELSE IF report.chatType = DOMAIN_ALL THEN 2
    ELSE IF Archived(report) THEN 3
    ELSE IF report.chatType = POLICY_EXPENSE_CHAT /\ report.isOwnPolicyExpenseChat = Bool(TRUE) THEN 4
    ELSE 5

SubtitleCasesAgree(report, policiesMap, subtitle) ==
    LET c == SubtitleCase(report)
    IN /\ c = 1 => subtitle = Str(<<>>)
       /\ (c = 2 /\ report.reportName.type = "string")
             => subtitle = Str(SubSeq(report.reportName.s, 2, Len(report.reportName.s)))
       /\ c = 3 => subtitle = report.oldPolicyName
       /\ c = 4 => subtitle = translateLocal("workspace.common.workspace", Undefined)
       /\ c = 5 => subtitle = StoredPolicyName(report, policiesMap)

(* C8: getChatRoomSubtitle returns, for every report and policy map, the   *)
(* value of the first matching case: the empty string outside rooms and    *)
(* policy-expense chats, the report name without its first character for   *)
(* a domain-all room, oldPolicyName for an archived room, the workspace    *)
(* label for the caller's own policy-expense chat, and otherwise the       *)
(* stored policy name or the unavailable label.                            *)
C8_SubtitleCases ==
    op = "getChatRoomSubtitle" =>
        /\ result # TypeError
        /\ SubtitleCasesAgree(input.report, input.policiesMap, result)

(* Where getChatRoomSubtitle returns, it returns what the cases of C8 say. *)
SubtitleCasesWhereReturned ==
    (op = "getChatRoomSubtitle" /\ result # TypeError) =>
        SubtitleCasesAgree(input.report, input.policiesMap, result)

Participants(report) ==
    IF report.participants = Undefined THEN <<>> ELSE report.participants.items

ProfileOf(personalDetails, login) ==
    IF login.s \in DOMAIN personalDetails.entries
    THEN personalDetails.entries[login.s]
    ELSE Undefined

NoReservedEmail(report) ==
    \A i \in 1..Len(Participants(report)) : Participants(report)[i] \notin EXPENSIFY_EMAILS

(* canShowReportRecipientLocalTime returns a truthy value exactly when the *)
(* report has one participant, who has a profile, no participant is a      *)
(* reserved system email, and the selected value of the profile's timezone *)
(* (of CONST.DEFAULT_TIME_ZONE when the profile has none) is truthy.  What *)
(* C9 says of a profile with no timezone is therefore decided by that      *)
(* constant: it holds when its selected value is falsy and fails when it   *)
(* is truthy.                                                              *)
LocalTimeGivenDefault ==
    op = "canShowReportRecipientLocalTime" =>
        /\ Truthy(result) <=>
            /\ Len(Participants(input.report)) = 1
            /\ NoReservedEmail(input.report)
            /\ LET profile == ProfileOf(input.personalDetails, Participants(input.report)[1])
               IN /\ profile # Undefined
                  /\ IF profile.timezone = Undefined
                     THEN Truthy(input.DEFAULT_TIME_ZONE.selected)
                     ELSE Truthy(profile.timezone.selected)
        /\ Len(Participants(input.report)) # 1 => ~Truthy(result)

=============================================================================
